---- MODULE Spec2Model ----
(***************************************************************************)
(* FastGitFileHistory (src/src/extension.ts and its drafts), modelled as   *)
(* state machines over one set of variables:                               *)
(*   Spec, FairSpec   the LCS line aligner buildMergedLines                *)
(*   PayloadSpec      getFullFileDiffPayload: the fetches, then the aligner*)
(*   RenderSpec       the aligner, the payload and the webview's           *)
(*                    renderCombinedHighlighted                            *)
(*   DiffRequestSpec  the showDiff / updateDiff messages of one view       *)
(*   FairDiffRequestSpec  the same, every message eventually handled       *)
(*   PanelSpec        the history views and the module-level state         *)
(*   ListenerSpec     the updateDiff listener of the webview page          *)
(*   NavigationSpec   the navigationHistory stack of the drafts            *)
(*   RegistrySpec     the commit-files panels and their registry           *)
(*   DiffHtmlSpec     getFullFileDiffHtml of the draft part_002            *)
(* A text is a sequence of characters; a line is a text without the        *)
(* newline character.  The aligner receives two texts, derives the line    *)
(* sequences by String.split('\n') guarded by the truthiness of the text,  *)
(* fills the dp table backwards and walks it forwards.                     *)
(***************************************************************************)
EXTENDS Integers, Sequences, FiniteSets, TLC

\* the aligner: buildMergedLines
VARIABLES old, new, oldText, newText, oldLines, newLines, dp, i, j, merged, pc, badRead

\* the webview's render of one updateDiff message: renderCombinedHighlighted
VARIABLES combinedText, types, hlOk, tree, hlLines, resultLines, frag, containerOut, rpc

alignerVars == <<old, new, oldText, newText, oldLines, newLines, dp, i, j, merged, pc, badRead>>

renderVars == <<combinedText, types, hlOk, tree, hlLines, resultLines, frag, containerOut, rpc>>

\* the host side of a diff request: the revision asked for and the outcome of
\* the two content fetches of getFullFileDiffPayload
VARIABLES request

\* one history view and its webview: the showDiff and updateDiff messages
VARIABLES selected, toHost, fetching, toWebview, displayed, nextId

\* the history views of the extension and its module-level state
VARIABLES views, currentPanel, navigationHistory

\* the calls of GitFileHistoryPanel.update that wait for git, and the views
\* whose panel the user closed
VARIABLES updating, disposedViews

\* the children of the #diff element of the webview page, how many there were
\* before the last updateDiff message, and the number of messages handled
VARIABLES diffEl, before, received

diffVars == <<selected, toHost, fetching, toWebview, displayed, nextId>>

listenerVars == <<diffEl, before, received>>

\* the drafts with the back command: the panels open, the closures back has
\* called, and whether back ended in an error
VARIABLES historyPanels, filesPanels, ran, navError

navVars == <<historyPanels, filesPanels, ran, navError>>

\* the commit-files panels: the panels made so far and the static registry
\* GitCommitFilesPanel.currentPanels
VARIABLES currentPanels, commitPanels

registryVars == <<currentPanels, commitPanels>>

\* one call of getFullFileDiffHtml: the content of the file at the commit, the
\* diff output, whether it was made by the catch of the diff against the
\* parent, the position of the loop over its lines, the line counter, the two
\* sets of marked lines, the html returned and the position of the call
VARIABLES baseContent, diffOutput, firstCommit, lineNo, currLine, addedLines, removedLines, diffHtml, hpc

htmlVars == <<baseContent, diffOutput, firstCommit, lineNo, currLine, addedLines, removedLines, diffHtml, hpc>>

moreVars == <<listenerVars, navVars, registryVars, htmlVars>>

viewVars == <<views, currentPanel, updating, disposedViews>>

panelVars == <<viewVars, navigationHistory>>

hostVars == <<request, diffVars, panelVars, moreVars>>

vars == <<alignerVars, renderVars, hostVars>>

\* ---------------------------------------------------------------- bounds
MaxOld == 3
MaxNew == 3

\* ---------------------------------------------------------------- texts
NL == "\n"

\* the lines the inputs are drawn from: the empty line and three one-character lines
Lines == { <<>>, <<"a">>, <<"b">>, <<"c">> }

SeqsUpTo(S, k) == UNION { [1..len -> S] : len \in 0..k }

\* concrete scenario 1: old=[a,b,c], new=[a,x,c]
Scenario1 == << << <<"a">>, <<"b">>, <<"c">> >>, << <<"a">>, <<"x">>, <<"c">> >> >>

\* concrete scenario 2: old=[], new=[hello]
Hello == <<"h", "e", "l", "l", "o">>
Scenario2 == << <<>>, <<Hello>> >>

\* the pairs (old, new) the function is applied to: every pair of bounded line
\* sequences, and the two concrete scenarios
Inputs ==
  (SeqsUpTo(Lines, MaxOld) \X SeqsUpTo(Lines, MaxNew)) \cup { Scenario1, Scenario2 }

\* Array.prototype.join('\n'): the texts of the lines separated by a newline
RECURSIVE Join(_)
Join(ls) ==
  IF ls = <<>> THEN <<>>
  ELSE IF Len(ls) = 1 THEN ls[1]
  ELSE ls[1] \o <<NL>> \o Join(Tail(ls))

\* mutant: split('') instead of split('\n'), one element per character
SplitEveryChar(t) == [k \in 1..Len(t) |-> <<t[k]>>]

\* String.prototype.split('\n'): always at least one element
RECURSIVE Split(_)
Split(t) ==
  IF t = <<>> THEN << <<>> >>
  ELSE IF Head(t) = NL THEN << <<>> >> \o Split(Tail(t))
  ELSE LET r == Split(Tail(t)) IN << <<Head(t)>> \o r[1] >> \o Tail(r)

\* mutant: the truthiness guard dropped, the text is always split
ToLinesUnguarded(t) == Split(t)

\* `oldText ? oldText.split('\n') : []`
ToLines(t) == IF t # <<>> THEN Split(t) ELSE <<>>

\* ---------------------------------------------------------------- dp table
m == Len(oldLines)
n == Len(newLines)

\* a[k] of a JavaScript array (0-based); undefined outside the array
LineAt(ls, k) == IF k + 1 \in 1..Len(ls) THEN ls[k + 1] ELSE <<"undefined">>

\* mutant: the smaller of the two
MaxTakesSmaller(x, y) == IF x >= y THEN y ELSE x

\* Math.max(x, y)
Max(x, y) == IF x >= y THEN x ELSE y

\* Array.from({length: m+1}, () => new Array(n+1).fill(0))
ZeroTable(rows, cols) == [r \in 0..rows |-> [c \in 0..cols |-> 0]]

InTable(r, c) == r \in DOMAIN dp /\ c \in DOMAIN dp[r]

\* dp[r][c]; a read outside the table abandons the run (see badRead)
DpAt(r, c) == IF InTable(r, c) THEN dp[r][c] ELSE -1

Rec(ty, tx) == [type |-> ty, text |-> tx]

\* mutant: the backward loops start one past the last index
LoopStartOffByOne(len) == len

\* `let i = m - 1` / `let j = n - 1`
LoopStart(len) == len - 1

\* ---------------------------------------------------------------- actions
\* the call buildMergedLines(oldText, newText) on the texts of one of the pairs
CallOn(inputs) ==
  /\ \E input \in inputs :
       /\ old = input[1]
       /\ new = input[2]
       /\ oldText = Join(input[1])
       /\ newText = Join(input[2])
  /\ oldLines = <<>>
  /\ newLines = <<>>
  /\ dp = ZeroTable(0, 0)
  /\ i = 0
  /\ j = 0
  /\ merged = <<>>
  /\ pc = "start"
  /\ badRead = FALSE

\* the webview before any updateDiff message: nothing rendered
RenderIdle ==
  /\ combinedText = <<>>
  /\ types = <<>>
  /\ hlOk = TRUE
  /\ tree = <<>>
  /\ hlLines = <<>>
  /\ resultLines = <<>>
  /\ frag = <<>>
  /\ containerOut = <<>>
  /\ rpc = "idle"

\* every fetch of the request succeeds
AllFetched == [commit |-> "WORKING", oldOk |-> TRUE, newOk |-> TRUE]

\* no revision selected, no message in flight, nothing displayed
DiffIdle ==
  /\ selected = "none"
  /\ toHost = <<>>
  /\ fetching = {}
  /\ toWebview = <<>>
  /\ displayed = "none"
  /\ nextId = 1

\* the extension after activate(): no panel, `navigationHistory = []`
PanelIdle ==
  /\ views = <<>>
  /\ currentPanel = 0
  /\ navigationHistory = <<>>
  /\ updating = <<>>
  /\ disposedViews = {}

\* the page before any updateDiff message: #diff is empty
ListenerIdle ==
  /\ diffEl = <<>>
  /\ before = 0
  /\ received = 0

\* the drafts after activate(): no panel, back never called
NavIdle ==
  /\ historyPanels = {}
  /\ filesPanels = {}
  /\ ran = <<>>
  /\ navError = FALSE

\* `static currentPanels = new Map()`: no commit-files panel
RegistryIdle ==
  /\ currentPanels = <<>>
  /\ commitPanels = <<>>

\* getFullFileDiffHtml not called
HtmlIdle ==
  /\ baseContent = <<>>
  /\ diffOutput = <<>>
  /\ firstCommit = FALSE
  /\ lineNo = 0
  /\ currLine = 0
  /\ addedLines = {}
  /\ removedLines = {}
  /\ diffHtml = <<>>
  /\ hpc = "idle"

MoreIdle ==
  /\ ListenerIdle
  /\ NavIdle
  /\ RegistryIdle
  /\ HtmlIdle

HostIdle ==
  /\ request = AllFetched
  /\ DiffIdle
  /\ PanelIdle
  /\ MoreIdle

Init ==
  /\ CallOn(Inputs)
  /\ RenderIdle
  /\ HostIdle

\* derive the line sequences, allocate the table, enter the fill loops
SplitLines ==
  /\ pc = "start"
  /\ oldLines' = ToLines(oldText)
  /\ newLines' = ToLines(newText)
  /\ dp' = ZeroTable(Len(ToLines(oldText)), Len(ToLines(newText)))
  /\ i' = LoopStart(Len(ToLines(oldText)))
  /\ j' = LoopStart(Len(ToLines(newText)))
  /\ pc' = "fill"
  /\ UNCHANGED <<old, new, oldText, newText, merged, badRead>>
  /\ UNCHANGED <<renderVars, hostVars>>

\* mutant: the else branch looks only at the row below
FillValueRowOnly ==
  IF LineAt(oldLines, i) = LineAt(newLines, j)
  THEN 1 + DpAt(i + 1, j + 1)
  ELSE DpAt(i + 1, j)

\* the value the fill stores in dp[i][j]
FillValue ==
  IF LineAt(oldLines, i) = LineAt(newLines, j)
  THEN 1 + DpAt(i + 1, j + 1)
  ELSE Max(DpAt(i + 1, j), DpAt(i, j + 1))

\* the table cells the fill reads to compute dp[i][j]
FillReads ==
  IF LineAt(oldLines, i) = LineAt(newLines, j)
  THEN { <<i + 1, j + 1>> }
  ELSE { <<i + 1, j>>, <<i, j + 1>> }

\* one iteration of the inner loop of the backward fill, with the loop control
FillCell ==
  /\ pc = "fill"
  /\ i >= 0
  /\ j >= 0
  /\ IF \A rc \in FillReads : InTable(rc[1], rc[2])
     THEN /\ dp' = [dp EXCEPT ![i] = [@ EXCEPT ![j] = FillValue]]
          /\ IF j - 1 >= 0
             THEN i' = i /\ j' = j - 1
             ELSE i' = i - 1 /\ j' = LoopStart(n)
          /\ UNCHANGED <<pc, badRead>>
     ELSE /\ badRead' = TRUE
          /\ pc' = "failed"
          /\ UNCHANGED <<dp, i, j>>
  /\ UNCHANGED <<old, new, oldText, newText, oldLines, newLines, merged>>
  /\ UNCHANGED <<renderVars, hostVars>>

\* the fill loops are over: `let i = 0, j = 0; const merged = []`
FillDone ==
  /\ pc = "fill"
  /\ (i < 0 \/ j < 0)
  /\ i' = 0
  /\ j' = 0
  /\ merged' = <<>>
  /\ pc' = "walk"
  /\ UNCHANGED <<old, new, oldText, newText, oldLines, newLines, dp, badRead>>
  /\ UNCHANGED <<renderVars, hostVars>>

\* the condition of the main loop
InWalk == pc = "walk" /\ i < m /\ j < n

\* mutant: the tie goes to the insertion
DelWinsStrict == DpAt(i + 1, j) > DpAt(i, j + 1)

\* the comparison that chooses between deletion and insertion
DelWins == DpAt(i + 1, j) >= DpAt(i, j + 1)

\* the branch the loop body takes at (i, j)
WalkBranch ==
  IF LineAt(oldLines, i) = LineAt(newLines, j) THEN "same"
  ELSE IF DelWins THEN "del"
  ELSE "add"

\* the table cells the loop body reads at (i, j)
WalkReads ==
  IF LineAt(oldLines, i) = LineAt(newLines, j) THEN {}
  ELSE { <<i + 1, j>>, <<i, j + 1>> }

\* mutant: the same branch forgets j++
WalkAdvanceSameKeepsJ(b) ==
  <<IF b \in {"same", "del"} THEN i + 1 ELSE i, IF b \in {"add"} THEN j + 1 ELSE j>>

\* the indices after the branch: i++ for same and del, j++ for same and add
WalkAdvance(b) ==
  <<IF b \in {"same", "del"} THEN i + 1 ELSE i, IF b \in {"same", "add"} THEN j + 1 ELSE j>>

\* mutant: the del branch takes its text from new
WalkRecordDelTakesNew(b) == Rec(b, LineAt(newLines, j))

\* the record the branch pushes: old's line for del, new's line otherwise
WalkRecord(b) ==
  IF b = "del" THEN Rec("del", LineAt(oldLines, i)) ELSE Rec(b, LineAt(newLines, j))

\* one iteration of the main loop
WalkStep ==
  /\ InWalk
  /\ IF \A rc \in WalkReads : InTable(rc[1], rc[2])
     THEN /\ merged' = Append(merged, WalkRecord(WalkBranch))
          /\ i' = WalkAdvance(WalkBranch)[1]
          /\ j' = WalkAdvance(WalkBranch)[2]
          /\ UNCHANGED <<pc, badRead>>
     ELSE /\ badRead' = TRUE
          /\ pc' = "failed"
          /\ UNCHANGED <<merged, i, j>>
  /\ UNCHANGED <<old, new, oldText, newText, oldLines, newLines, dp>>
  /\ UNCHANGED <<renderVars, hostVars>>

\* mutant: the deletion tail stops one line early
TailDelBoundShort == i < m - 1

\* the condition of the deletion tail loop
TailDelBound == i < m

\* mutant: the insertion tail pushes the wrong type
TailAddRecordAsDel == Rec("del", LineAt(newLines, j))

\* the record the insertion tail pushes
TailAddRecord == Rec("add", LineAt(newLines, j))

\* one iteration of `while (i < m) merged.push({type:'del', text: oldLines[i++]})`
TailDel ==
  /\ pc = "walk"
  /\ ~(i < m /\ j < n)
  /\ TailDelBound
  /\ merged' = Append(merged, Rec("del", LineAt(oldLines, i)))
  /\ i' = i + 1
  /\ UNCHANGED <<old, new, oldText, newText, oldLines, newLines, dp, j, pc, badRead>>
  /\ UNCHANGED <<renderVars, hostVars>>

\* one iteration of `while (j < n) merged.push({type:'add', text: newLines[j++]})`
TailAdd ==
  /\ pc = "walk"
  /\ ~(i < m /\ j < n)
  /\ ~TailDelBound
  /\ j < n
  /\ merged' = Append(merged, TailAddRecord)
  /\ j' = j + 1
  /\ UNCHANGED <<old, new, oldText, newText, oldLines, newLines, dp, i, pc, badRead>>
  /\ UNCHANGED <<renderVars, hostVars>>

\* `return merged`
Return ==
  /\ pc = "walk"
  /\ ~(i < m /\ j < n)
  /\ ~TailDelBound
  /\ ~(j < n)
  /\ pc' = "done"
  /\ UNCHANGED <<old, new, oldText, newText, oldLines, newLines, dp, i, j, merged, badRead>>
  /\ UNCHANGED <<renderVars, hostVars>>

Next ==
  \/ SplitLines
  \/ FillCell
  \/ FillDone
  \/ WalkStep
  \/ TailDel
  \/ TailAdd
  \/ Return

Spec == Init /\ [][Next]_vars

\* the scheduler runs the synchronous function to completion
FairSpec == Spec /\ WF_vars(Next)

\* ---------------------------------------------------------------- payload
\* `merged.map(m => m.type)`
MergedTypes(ms) == [k \in 1..Len(ms) |-> ms[k].type]

\* `merged.map(m => m.text).join('\n')`
MergedText(ms) == Join([k \in 1..Len(ms) |-> ms[k].text])

\* ---------------------------------------------------------------- markup
\* An html string is a sequence of tokens: the characters of its text (entity
\* references are spelled out character by character) and its tags.  The
\* attribute values of a tag token are kept as written, that is escaped.
Ch(c) == [k |-> "c", tag |-> "", attrs |-> <<>>, c |-> c]
OpenTag(tag, attrs) == [k |-> "open", tag |-> tag, attrs |-> attrs, c |-> ""]
CloseTag(tag) == [k |-> "close", tag |-> tag, attrs |-> <<>>, c |-> ""]
Chars(str) == [x \in 1..Len(str) |-> Ch(str[x])]

\* the nodes of the DOM tree the highlighted html parses to
TextNode(v) == [nodeType |-> "text", nodeValue |-> v, tagName |-> "", attributes |-> <<>>, childNodes |-> <<>>]
ElementNode(tag, attrs, kids) ==
  [nodeType |-> "element", nodeValue |-> <<>>, tagName |-> tag, attributes |-> attrs, childNodes |-> kids]

AmpEntity == <<"&", "a", "m", "p", ";">>
LtEntity == <<"&", "l", "t", ";">>
GtEntity == <<"&", "g", "t", ";">>
QuotEntity == <<"&", "q", "u", "o", "t", ";">>

\* the placeholder '&nbsp;' of an empty line
Nbsp == Chars(<<"&", "n", "b", "s", "p", ";">>)

\* String.prototype.replace(/c/g, rep)
RECURSIVE ReplaceAll(_, _, _)
ReplaceAll(str, c, rep) ==
  IF str = <<>> THEN <<>>
  ELSE (IF Head(str) = c THEN rep ELSE <<Head(str)>>) \o ReplaceAll(Tail(str), c, rep)

\* escapeHtmlTextNode: one pass over the characters & < >
RECURSIVE EscapeHtmlTextNode(_)
EscapeHtmlTextNode(str) ==
  IF str = <<>> THEN <<>>
  ELSE (CASE Head(str) = "&" -> AmpEntity
          [] Head(str) = "<" -> LtEntity
          [] Head(str) = ">" -> GtEntity
          [] OTHER -> <<Head(str)>>) \o EscapeHtmlTextNode(Tail(str))

\* escapeAttr of splitHighlightedHtmlToLines: the quote is replaced first
EscapeAttr(str) ==
  ReplaceAll(ReplaceAll(ReplaceAll(ReplaceAll(str, "\"", QuotEntity), "&", AmpEntity), "<", LtEntity), ">", GtEntity)

\* escapeAttr of the nodeToLines draft: the ampersand is replaced first
EscapeAttrAmpFirst(str) ==
  ReplaceAll(ReplaceAll(ReplaceAll(ReplaceAll(str, "&", AmpEntity), "\"", QuotEntity), "<", LtEntity), ">", GtEntity)

\* the opening tag of an element: tag name and every attribute, value escaped
OpenOf(node) ==
  OpenTag(node.tagName,
          [a \in 1..Len(node.attributes) |->
             [name |-> node.attributes[a].name, value |-> EscapeAttr(node.attributes[a].value)]])

OpenOfAmpFirst(node) ==
  OpenTag(node.tagName,
          [a \in 1..Len(node.attributes) |->
             [name |-> node.attributes[a].name, value |-> EscapeAttrAmpFirst(node.attributes[a].value)]])

\* ---------------------------------------------------------------- splitHighlightedHtmlToLines
\* appendToLine(idx, str): grow the array up to idx, then append (idx is 0-based)
AppendToLine(lines, idx, str) ==
  LET padded == IF Len(lines) <= idx
                THEN lines \o [x \in 1..(idx + 1 - Len(lines)) |-> <<>>]
                ELSE lines
  IN [padded EXCEPT ![idx + 1] = @ \o str]

\* the parts of a text node: each part goes to the current line, each break
\* between two parts advances the line index
RECURSIVE WalkParts(_, _, _, _)
WalkParts(parts, k, lineIndex, lines) ==
  IF k > Len(parts) THEN [lineIndex |-> lineIndex, lines |-> lines]
  ELSE WalkParts(parts, k + 1,
                 IF k < Len(parts) THEN lineIndex + 1 ELSE lineIndex,
                 AppendToLine(lines, lineIndex, Chars(EscapeHtmlTextNode(parts[k]))))

\* the closing tag appended to every line from startIndex to lineIndex
RECURSIVE CloseLines(_, _, _, _)
CloseLines(lines, idx, lineIndex, close) ==
  IF idx > lineIndex THEN lines
  ELSE CloseLines(AppendToLine(lines, idx, <<close>>), idx + 1, lineIndex, close)

\* walk(node, lineIndex): returns the line index after the node
RECURSIVE Walk(_, _, _)
RECURSIVE WalkChildren(_, _, _, _)
Walk(node, lineIndex, lines) ==
  IF node.nodeType = "text"
  THEN WalkParts(Split(node.nodeValue), 1, lineIndex, lines)
  ELSE LET opened == AppendToLine(lines, lineIndex, <<OpenOf(node)>>)
           inner == WalkChildren(node.childNodes, 1, lineIndex, opened)
       IN [lineIndex |-> inner.lineIndex,
           lines |-> CloseLines(inner.lines, lineIndex, inner.lineIndex, CloseTag(node.tagName))]

WalkChildren(kids, c, lineIndex, lines) ==
  IF c > Len(kids) THEN [lineIndex |-> lineIndex, lines |-> lines]
  ELSE LET r == Walk(kids[c], lineIndex, lines)
       IN WalkChildren(kids, c + 1, r.lineIndex, r.lines)

\* `for (n ...) walk(container.childNodes[n], 0)`: every top-level node is
\* walked from line index 0, the index a walk returns is dropped
RECURSIVE WalkTopLevel(_, _, _)
WalkTopLevel(nodes, k, lines) ==
  IF k > Len(nodes) THEN lines
  ELSE WalkTopLevel(nodes, k + 1, Walk(nodes[k], 0, lines).lines)

\* `if (lines.length > 1 && lines[lines.length-1] === '') lines.pop()`
TrimTrailingEmpty(lines) ==
  IF Len(lines) > 1 /\ lines[Len(lines)] = <<>> THEN SubSeq(lines, 1, Len(lines) - 1) ELSE lines

SplitHighlightedHtmlToLines(nodes) == TrimTrailingEmpty(WalkTopLevel(nodes, 1, << <<>> >>))

\* ---------------------------------------------------------------- nodeToLines
\* the lines of a child appended to the lines so far: its first line continues
\* the last line, the others are pushed
MergeChildLines(lines, childLines) ==
  [lines EXCEPT ![Len(lines)] = @ \o childLines[1]] \o Tail(childLines)

\* nodeToLines(node): a text node is split as it is (not escaped), an element
\* wraps every one of its lines in its own opening and closing tag
RECURSIVE NodeToLines(_)
RECURSIVE ChildrenToLines(_, _, _)
NodeToLines(node) ==
  IF node.nodeType = "text"
  THEN LET parts == Split(node.nodeValue) IN [x \in 1..Len(parts) |-> Chars(parts[x])]
  ELSE LET lines == ChildrenToLines(node.childNodes, 1, << <<>> >>)
       IN [x \in 1..Len(lines) |-> <<OpenOfAmpFirst(node)>> \o lines[x] \o <<CloseTag(node.tagName)>>]

ChildrenToLines(kids, c, lines) ==
  IF c > Len(kids) THEN lines
  ELSE ChildrenToLines(kids, c + 1, MergeChildLines(lines, NodeToLines(kids[c])))

\* the accumulation of renderCombinedHighlighted in the nodeToLines draft
ResultLines(nodes) == TrimTrailingEmpty(ChildrenToLines(nodes, 1, << <<>> >>))

\* ---------------------------------------------------------------- line wrappers
\* 'line' + (t === 'add' ? ' add' : t === 'del' ? ' del' : '')
ClassName(t) == IF t = "add" THEN "line add" ELSE IF t = "del" THEN "line del" ELSE "line"

\* mutant: the type is read one index too far
TypeAtNext(tys, x) == IF x + 2 \in 1..Len(tys) THEN tys[x + 2] ELSE "same"

\* `types[i] || 'same'` (0-based i)
TypeAt(tys, x) == IF x + 1 \in 1..Len(tys) THEN tys[x + 1] ELSE "same"

\* `(hlLines[i] && hlLines[i].length) ? hlLines[i] : '&nbsp;'` (0-based i)
InnerHtmlAt(lines, x) ==
  IF x + 1 \in 1..Len(lines) /\ lines[x + 1] # <<>> THEN lines[x + 1] ELSE Nbsp

\* Math.max(hlLines.length, types.length)
LineCount(lines, tys) == Max(Len(lines), Len(tys))

\* the wrappers appended to the fragment, one per index below the line count
Wrappers(lines, tys) ==
  [x \in 1..LineCount(lines, tys) |->
     [className |-> ClassName(TypeAt(tys, x - 1)), innerHTML |-> InnerHtmlAt(lines, x - 1)]]

\* ---------------------------------------------------------------- the highlighter
\* bounds of the render pipeline
MaxRenderOld == 2
MaxRenderNew == 2
MaxSpans == 2

\* the lines of the rendered files: the empty line, a letter, a character that
\* html escapes
RenderLines == { <<>>, <<"a">>, <<"<">> }

RenderInputs == SeqsUpTo(RenderLines, MaxRenderOld) \X SeqsUpTo(RenderLines, MaxRenderNew)

\* the attribute lists highlight spans carry: an ordinary class name and a
\* value with a double quote
SpanAttributes ==
  { << [name |-> "class", value |-> <<"s">>] >>, << [name |-> "class", value |-> <<"\"">>] >> }

\* a span of the highlighter wraps the characters lo+1..hi of the text
SpansOf(text) ==
  { [lo |-> lo, hi |-> hi, attrs |-> at] : lo \in 0..Len(text), hi \in 0..Len(text), at \in SpanAttributes }

Inside(s, t) == t.lo <= s.lo /\ s.hi <= t.hi /\ <<s.lo, s.hi>> # <<t.lo, t.hi>>
Apart(s, t) == s.hi <= t.lo \/ t.hi <= s.lo
Nests(s, t) == Inside(s, t) \/ Inside(t, s) \/ Apart(s, t)

\* the sets of at most k non-empty spans that nest properly
RECURSIVE ProperSpanSets(_, _)
ProperSpanSets(text, k) ==
  IF k = 0 THEN { {} }
  ELSE LET smaller == ProperSpanSets(text, k - 1)
           spans == { t \in SpansOf(text) : t.lo < t.hi }
       IN smaller \cup
          UNION { { S \cup {s} : s \in { t \in spans : \A u \in S : Nests(t, u) } } : S \in smaller }

\* the node list of the characters lo+1..hi of the text under the spans S:
\* adjacent characters outside every span form one text node
RECURSIVE BuildNodes(_, _, _, _)
BuildNodes(text, lo, hi, S) ==
  IF lo >= hi THEN <<>>
  ELSE LET tops == { s \in S : ~ \E t \in S : Inside(s, t) }
       IN IF tops = {} THEN << TextNode(SubSeq(text, lo + 1, hi)) >>
          ELSE LET f == CHOOSE s \in tops : \A t \in tops : s.lo <= t.lo
                   inner == { t \in S : Inside(t, f) }
                   rest == { t \in S : t.lo >= f.hi }
               IN (IF f.lo > lo THEN << TextNode(SubSeq(text, lo + 1, f.lo)) >> ELSE <<>>)
                  \o << ElementNode("span", f.attrs, BuildNodes(text, f.lo, f.hi, inner)) >>
                  \o BuildNodes(text, f.hi, hi, rest)

\* the trees hljs.highlightElement can leave in code.innerHTML for a text: the
\* text itself, cut into text nodes and nested span elements
HighlightTrees(text) ==
  { BuildNodes(text, 0, Len(text), S) : S \in ProperSpanSets(text, MaxSpans) }

\* code.innerHTML when highlighting did not happen: the text set by textContent
PlainTree(text) == IF text = <<>> THEN <<>> ELSE << TextNode(text) >>

\* ---------------------------------------------------------------- the render pipeline
\* getFullFileDiffPayload builds the payload of the returned Mergeview and the
\* host posts it to the webview as an updateDiff message
BuildPayload ==
  /\ pc = "done"
  /\ rpc = "idle"
  /\ combinedText' = MergedText(merged)
  /\ types' = MergedTypes(merged)
  /\ rpc' = "message"
  /\ UNCHANGED <<hlOk, tree, hlLines, resultLines, frag, containerOut>>
  /\ UNCHANGED <<alignerVars, hostVars>>

\* hljs.highlightElement(code) succeeds: code.innerHTML is a highlight tree
Highlight ==
  /\ rpc = "message"
  /\ \E t \in HighlightTrees(combinedText) : tree' = t
  /\ hlOk' = TRUE
  /\ rpc' = "highlighted"
  /\ UNCHANGED <<combinedText, types, hlLines, resultLines, frag, containerOut>>
  /\ UNCHANGED <<alignerVars, hostVars>>

\* hljs is missing or throws: both catch blocks swallow the error and
\* code.innerHTML stays the plain text
HighlightFails ==
  /\ rpc = "message"
  /\ tree' = PlainTree(combinedText)
  /\ hlOk' = FALSE
  /\ rpc' = "highlighted"
  /\ UNCHANGED <<combinedText, types, hlLines, resultLines, frag, containerOut>>
  /\ UNCHANGED <<alignerVars, hostVars>>

\* the highlighted html is split into lines, by each of the two drafts
SplitHighlighted ==
  /\ rpc = "highlighted"
  /\ hlLines' = SplitHighlightedHtmlToLines(tree)
  /\ resultLines' = ResultLines(tree)
  /\ rpc' = "split"
  /\ UNCHANGED <<combinedText, types, hlOk, tree, frag, containerOut>>
  /\ UNCHANGED <<alignerVars, hostVars>>

\* the line wrappers are built from the lines and the types
BuildFragment ==
  /\ rpc = "split"
  /\ frag' = Wrappers(hlLines, types)
  /\ containerOut' = Wrappers(resultLines, types)
  /\ rpc' = "rendered"
  /\ UNCHANGED <<combinedText, types, hlOk, tree, hlLines, resultLines>>
  /\ UNCHANGED <<alignerVars, hostVars>>

RenderInit ==
  /\ CallOn(RenderInputs)
  /\ RenderIdle
  /\ HostIdle

RenderNext ==
  \/ SplitLines
  \/ FillCell
  \/ FillDone
  \/ WalkStep
  \/ TailDel
  \/ TailAdd
  \/ Return
  \/ BuildPayload
  \/ Highlight
  \/ HighlightFails
  \/ SplitHighlighted
  \/ BuildFragment

\* one diff request from the aligner to the rendered lines
RenderSpec == RenderInit /\ [][RenderNext]_vars

\* ---------------------------------------------------------------- getFullFileDiffPayload
\* the requests: the revision asked for (the working copy or a commit) and,
\* for each of the two content fetches, whether it succeeds
Requests == [commit : {"WORKING", "c1"}, oldOk : BOOLEAN, newOk : BOOLEAN]

\* mutant: a failed fetch leaves a placeholder text instead of the empty text
FetchedOrPlaceholder(ok, content) == IF ok THEN Join(content) ELSE <<"a">>

\* `try { ...; x = stdout || ''; } catch { x = ''; }`: the text of the blob,
\* the empty text when the fetch throws
FetchedOr(ok, content) == IF ok THEN Join(content) ELSE <<>>

\* the call getFullFileDiffPayload(filePath, commit, repoPath): old and new are
\* the contents of the file at the two revisions the request compares
PayloadCallOn(inputs) ==
  /\ \E input \in inputs :
       /\ old = input[1]
       /\ new = input[2]
  /\ request \in Requests
  /\ oldText = <<>>
  /\ newText = <<>>
  /\ oldLines = <<>>
  /\ newLines = <<>>
  /\ dp = ZeroTable(0, 0)
  /\ i = 0
  /\ j = 0
  /\ merged = <<>>
  /\ pc = "fetch"
  /\ badRead = FALSE

\* commit === 'WORKING': the working file is read, then HEAD's blob is shown
FetchWorking ==
  /\ pc = "fetch"
  /\ request.commit = "WORKING"
  /\ newText' = FetchedOr(request.newOk, new)
  /\ oldText' = FetchedOr(request.oldOk, old)
  /\ pc' = "start"
  /\ UNCHANGED <<old, new, oldLines, newLines, dp, i, j, merged, badRead>>
  /\ UNCHANGED <<renderVars, hostVars>>

\* a commit: the blob of the parent is shown, then the blob of the commit
FetchCommit ==
  /\ pc = "fetch"
  /\ request.commit # "WORKING"
  /\ oldText' = FetchedOr(request.oldOk, old)
  /\ newText' = FetchedOr(request.newOk, new)
  /\ pc' = "start"
  /\ UNCHANGED <<old, new, oldLines, newLines, dp, i, j, merged, badRead>>
  /\ UNCHANGED <<renderVars, hostVars>>

PayloadInit ==
  /\ PayloadCallOn(RenderInputs)
  /\ RenderIdle
  /\ DiffIdle
  /\ PanelIdle
  /\ MoreIdle

PayloadNext ==
  \/ FetchWorking
  \/ FetchCommit
  \/ SplitLines
  \/ FillCell
  \/ FillDone
  \/ WalkStep
  \/ TailDel
  \/ TailAdd
  \/ Return
  \/ BuildPayload

\* one call of getFullFileDiffPayload, from the fetches to the returned payload
PayloadSpec == PayloadInit /\ [][PayloadNext]_vars

\* ---------------------------------------------------------------- showDiff / updateDiff
\* bound: the selections made in the view, the automatic first one included
MaxSelections == 3

\* the entries of the commit list of the view
Revisions == {"WORKING", "c1", "c2"}

\* the selections made so far: those the host has taken up and those waiting
Selections == (nextId - 1) + Len(toHost)

\* the webview script ends with postMessage({command: 'showDiff', commit: 'WORKING'})
WebviewLoaded ==
  /\ selected = "none"
  /\ selected' = "WORKING"
  /\ toHost' = Append(toHost, "WORKING")
  /\ UNCHANGED <<fetching, toWebview, displayed, nextId>>
  /\ UNCHANGED <<alignerVars, renderVars, request, panelVars, moreVars>>

\* the click listener of a commit entry: the entry is marked selected and
\* showDiff is posted to the host
ClickCommit ==
  /\ selected # "none"
  /\ Selections < MaxSelections
  /\ \E c \in Revisions :
       /\ selected' = c
       /\ toHost' = Append(toHost, c)
  /\ UNCHANGED <<fetching, toWebview, displayed, nextId>>
  /\ UNCHANGED <<alignerVars, renderVars, request, panelVars, moreVars>>

\* onDidReceiveMessage, up to its await: the handler of a showDiff message
\* starts getFullFileDiffPayload for the commit of the message
OnDidReceiveMessage ==
  /\ toHost # <<>>
  /\ fetching' = fetching \cup {[id |-> nextId, commit |-> Head(toHost)]}
  /\ nextId' = nextId + 1
  /\ toHost' = Tail(toHost)
  /\ UNCHANGED <<selected, toWebview, displayed>>
  /\ UNCHANGED <<alignerVars, renderVars, request, panelVars, moreVars>>

\* mutant: the payload is posted twice
PostedTwice(f) == <<f.commit, f.commit>>

\* the messages the handler posts when the fetch f has ended, with a payload
\* or with the payload of empty contents: one updateDiff
Posted(f) == <<f.commit>>

\* onDidReceiveMessage, after its await: one of the running fetches ends and
\* its payload is posted as updateDiff; the message names no commit
PostUpdateDiff ==
  /\ \E f \in fetching :
       /\ fetching' = fetching \ {f}
       /\ toWebview' = toWebview \o Posted(f)
  /\ UNCHANGED <<selected, toHost, displayed, nextId>>
  /\ UNCHANGED <<alignerVars, renderVars, request, panelVars, moreVars>>

\* the message listener of the webview: #diff is emptied and the payload of
\* the message is rendered, whatever entry is selected
OnUpdateDiff ==
  /\ toWebview # <<>>
  /\ displayed' = Head(toWebview)
  /\ toWebview' = Tail(toWebview)
  /\ UNCHANGED <<selected, toHost, fetching, nextId>>
  /\ UNCHANGED <<alignerVars, renderVars, request, panelVars, moreVars>>

DiffRequestInit ==
  /\ CallOn({ << <<>>, <<>> >> })
  /\ RenderIdle
  /\ HostIdle

DiffRequestNext ==
  \/ WebviewLoaded
  \/ ClickCommit
  \/ OnDidReceiveMessage
  \/ PostUpdateDiff
  \/ OnUpdateDiff

\* one history view: selections, fetches and renders
DiffRequestSpec == DiffRequestInit /\ [][DiffRequestNext]_vars

\* the host takes up every message it was sent, and every VCS call returns or
\* fails, so every running fetch ends; the webview handles what it is sent
FairDiffRequestSpec ==
  /\ DiffRequestSpec
  /\ WF_vars(OnDidReceiveMessage)
  /\ WF_vars(PostUpdateDiff)
  /\ WF_vars(OnUpdateDiff)

\* ---------------------------------------------------------------- history views
\* bounds: the panels opened, the closures pushed on navigationHistory, the
\* calls of update waiting for git at one time
MaxViews == 2
MaxNavigation == 3
MaxUpdates == 2

Files == {"f1", "f2"}

\* the commits `git log -- file` lists, newest first
GitLog(f) == IF f = "f1" THEN <<"c2", "c1">> ELSE <<"c3">>

\* the outcomes of the git calls of an opening: the repository is not found,
\* the commit listing fails, both succeed
Outcomes == {"noRepo", "logFails", "ok"}

\* getFileCommits of openFileHistory: the WORKING entry is put first; when git
\* log throws the catch returns the WORKING entry alone
GetFileCommits(f, outcome) ==
  IF outcome = "ok" THEN <<"WORKING">> \o GitLog(f) ELSE <<"WORKING">>

\* commitList of GitFileHistoryPanel.update, built once getFileCommits resolved
CommitList(f) == <<"uncommitted">> \o GitLog(f)

\* a history view: the file it is about, whether its webview html has been
\* set, the commit list of that html, the revision whose diff is displayed and
\* the outcome of the git calls of its last opening
View(kind, f, html, commitList, shown, outcome) ==
  [kind |-> kind, file |-> f, html |-> html, commitList |-> commitList,
   displayed |-> shown, listing |-> outcome]

Range(seq) == { seq[k] : k \in 1..Len(seq) }

\* openFileHistory(context, filePath): without a repository an error is shown
\* and no panel is made; otherwise a new panel is made, the commits are listed,
\* the html is set and the webview asks for the diff of WORKING
OpenedView(f, outcome) ==
  View("function", f, TRUE, GetFileCommits(f, outcome), "WORKING", outcome)

OpenFileHistoryOn(f, outcome) ==
  /\ Len(views) < MaxViews
  /\ views' = IF outcome = "noRepo" THEN views ELSE Append(views, OpenedView(f, outcome))
  /\ UNCHANGED <<currentPanel, navigationHistory, updating, disposedViews>>
  /\ UNCHANGED <<alignerVars, renderVars, request, diffVars, moreVars>>

OpenFileHistory == \E f \in Files, outcome \in Outcomes : OpenFileHistoryOn(f, outcome)

\* the rest of GitFileHistoryPanel.update(fileUri) once git answered: without
\* a repository the method returns; when git log rejects, the await throws and
\* the html is not assigned; otherwise the html is set to the commit list of
\* the fileUri of the call with the initial diff of its first entry
Update(view, f, outcome) ==
  IF outcome = "ok"
  THEN View("class", view.file, TRUE, CommitList(f), "uncommitted", outcome)
  ELSE View("class", view.file, view.html, view.commitList, view.displayed, outcome)

\* the panel the constructor starts from: nothing in its webview, no git call
\* answered
NewPanel(f) == View("class", f, FALSE, <<>>, "none", "none")

\* `this.fileUri = fileUri`, the first statement of update, runs in the call
Assigned(view, f) == [view EXCEPT !.file = f]

\* GitFileHistoryPanel.createOrShow(ctx, fileUri): the current panel, if any,
\* is revealed and update is called on it; otherwise a panel is made, becomes
\* the current panel and its constructor calls update.  update assigns
\* this.fileUri and then waits for git.  Revealing a panel the user closed
\* either throws, which ends the call, or does nothing
CreateOrShowOn(f) ==
  /\ Len(updating) < MaxUpdates
  /\ IF currentPanel # 0
     THEN /\ \/ /\ views' = [views EXCEPT ![currentPanel] = Assigned(@, f)]
                /\ updating' = Append(updating, [view |-> currentPanel, file |-> f])
             \/ /\ currentPanel \in disposedViews
                /\ UNCHANGED <<views, updating>>
          /\ UNCHANGED currentPanel
     ELSE /\ Len(views) < MaxViews
          /\ views' = Append(views, Assigned(NewPanel(f), f))
          /\ currentPanel' = Len(views) + 1
          /\ updating' = Append(updating, [view |-> Len(views) + 1, file |-> f])
  /\ UNCHANGED <<navigationHistory, disposedViews>>
  /\ UNCHANGED <<alignerVars, renderVars, request, diffVars, moreVars>>

CreateOrShow == \E f \in Files : CreateOrShowOn(f)

\* seq without its k-th element
Without(seq, k) == SubSeq(seq, 1, k - 1) \o SubSeq(seq, k + 1, Len(seq))

\* git answered the k-th waiting call of update and the call runs to its end;
\* the calls return in any order.  Assigning the html of a panel the user
\* closed either throws or does nothing that shows
UpdateDoneOn(k, outcome) ==
  /\ k \in 1..Len(updating)
  /\ updating' = Without(updating, k)
  /\ \/ views' = [views EXCEPT ![updating[k].view] = Update(@, updating[k].file, outcome)]
     \/ /\ updating[k].view \in disposedViews
        /\ UNCHANGED views
  /\ UNCHANGED <<currentPanel, navigationHistory, disposedViews>>
  /\ UNCHANGED <<alignerVars, renderVars, request, diffVars, moreVars>>

UpdateDone == \E k \in 1..Len(updating), outcome \in Outcomes : UpdateDoneOn(k, outcome)

\* the user closes the panel of view v: onDidDispose calls dispose(), which
\* disposes the disposables of the panel and nothing else
PanelDisposedOn(v) ==
  /\ v \in 1..Len(views)
  /\ v \notin disposedViews
  /\ disposedViews' = disposedViews \cup {v}
  /\ UNCHANGED <<views, currentPanel, navigationHistory, updating>>
  /\ UNCHANGED <<alignerVars, renderVars, request, diffVars, moreVars>>

PanelDisposed == \E v \in 1..Len(views) : PanelDisposedOn(v)

\* a revision of the commit list of view v is selected and its diff displayed
ShowDiffOn(v, c) ==
  /\ v \in 1..Len(views)
  /\ v \notin disposedViews
  /\ views[v].html
  /\ c \in Range(views[v].commitList)
  /\ views' = [views EXCEPT ![v].displayed = c]
  /\ UNCHANGED <<currentPanel, navigationHistory, updating, disposedViews>>
  /\ UNCHANGED <<alignerVars, renderVars, request, diffVars, moreVars>>

ShowDiff == \E v \in 1..Len(views) : \E c \in Range(views[v].commitList) : ShowDiffOn(v, c)

\* showCommitFiles of a view made by openFileHistory: the closure re-opening
\* the history of the view's file is pushed on the module's navigationHistory
ShowCommitFilesOn(v) ==
  /\ v \in 1..Len(views)
  /\ v \notin disposedViews
  /\ views[v].kind = "function"
  /\ Len(navigationHistory) < MaxNavigation
  /\ navigationHistory' = Append(navigationHistory, [file |-> views[v].file, owner |-> v])
  /\ UNCHANGED <<views, currentPanel, updating, disposedViews>>
  /\ UNCHANGED <<alignerVars, renderVars, request, diffVars, moreVars>>

ShowCommitFiles == \E v \in 1..Len(views) : ShowCommitFilesOn(v)

\* the command fastGitFileHistory.back: the last closure is popped and called
Back ==
  /\ navigationHistory # <<>>
  /\ Len(views) < MaxViews
  /\ navigationHistory' = SubSeq(navigationHistory, 1, Len(navigationHistory) - 1)
  /\ \E outcome \in Outcomes :
       views' = IF outcome = "noRepo" THEN views
                ELSE Append(views, OpenedView(navigationHistory[Len(navigationHistory)].file, outcome))
  /\ UNCHANGED <<currentPanel, updating, disposedViews>>
  /\ UNCHANGED <<alignerVars, renderVars, request, diffVars, moreVars>>

PanelInit ==
  /\ CallOn({ << <<>>, <<>> >> })
  /\ RenderIdle
  /\ HostIdle

PanelNext ==
  \/ OpenFileHistory
  \/ CreateOrShow
  \/ UpdateDone
  \/ PanelDisposed
  \/ ShowDiff
  \/ ShowCommitFiles
  \/ Back

\* the history views of one extension host
PanelSpec == PanelInit /\ [][PanelNext]_vars

\* ---------------------------------------------------------------- the updateDiff listener
\* bounds: the updateDiff messages handled, the records of a message
MaxMessages == 2
MaxMessageLines == 2

\* the Mergeviews the messages carry: the records of one kind over a line
\* sequence (an unchanged, a new or a removed file)
MessageViews ==
  { [k \in 1..Len(ls) |-> Rec(ty, ls[k])] :
      ty \in {"same", "add", "del"},
      ls \in SeqsUpTo(RenderLines, MaxMessageLines) \ { << <<>> >> } }

\* what the highlighter leaves for the text of a message: the plain text when
\* it fails, otherwise the text as it is or wrapped in one span
MessageTrees(text, ok) ==
  IF ok /\ text # <<>>
  THEN { PlainTree(text), << ElementNode("span", << [name |-> "class", value |-> <<"s">>] >>, PlainTree(text)) >> }
  ELSE { PlainTree(text) }

\* mutant: the children of the element are kept
ClearedKeeps(el) == el

\* `diffEl.innerHTML = ''`
Cleared(el) == <<>>

\* `diffEl.appendChild(frag)`: the children of the fragment are moved to the end
AppendChild(el, fragment) == el \o fragment

\* the listener of the page on an updateDiff message: #diff is emptied, the
\* message is rendered by renderCombinedHighlighted and the fragment appended
ReceiveUpdateDiff ==
  /\ received < MaxMessages
  /\ \E ms \in MessageViews, ok \in BOOLEAN :
       \E t \in MessageTrees(MergedText(ms), ok) :
         /\ combinedText' = MergedText(ms)
         /\ types' = MergedTypes(ms)
         /\ hlOk' = ok
         /\ tree' = t
         /\ hlLines' = SplitHighlightedHtmlToLines(t)
         /\ resultLines' = ResultLines(t)
         /\ frag' = Wrappers(SplitHighlightedHtmlToLines(t), MergedTypes(ms))
         /\ containerOut' = Wrappers(ResultLines(t), MergedTypes(ms))
         /\ diffEl' = AppendChild(Cleared(diffEl), Wrappers(SplitHighlightedHtmlToLines(t), MergedTypes(ms)))
  /\ before' = Len(diffEl)
  /\ received' = received + 1
  /\ rpc' = "rendered"
  /\ UNCHANGED <<alignerVars, request, diffVars, panelVars, navVars, registryVars, htmlVars>>

ListenerInit ==
  /\ CallOn({ << <<>>, <<>> >> })
  /\ RenderIdle
  /\ HostIdle

ListenerNext ==
  \/ ReceiveUpdateDiff

\* the page of one view handling the updateDiff messages it is sent
ListenerSpec == ListenerInit /\ [][ListenerNext]_vars

\* ---------------------------------------------------------------- navigationHistory and back
\* the commits of the repository and the files each of them changed
Commits == UNION { Range(GitLog(f)) : f \in Files }

GetCommitFiles(c) == { f \in Files : c \in Range(GitLog(f)) }

\* the closures pushed on navigationHistory: the call they make when run
Closure(run, arg) == [run |-> run, arg |-> arg]

\* Array.prototype.pop(): the last element, undefined on the empty array
Undefined == [run |-> "undefined", arg |-> ""]

Popped(stack) == IF stack = <<>> THEN Undefined ELSE stack[Len(stack)]

AfterPop(stack) == IF stack = <<>> THEN <<>> ELSE SubSeq(stack, 1, Len(stack) - 1)

\* mutant: the popped value is called without a test
TruthyAlways(last) == TRUE

\* `if (last)`
Truthy(last) == last # Undefined

\* the entries pushed so far: those on the stack and those back has run
Pushed == Len(navigationHistory) + Len(ran)

\* the command fastGitFileHistory.view: openFileHistory makes a history panel
ViewCommand ==
  /\ \E f \in Files : historyPanels' = historyPanels \cup {f}
  /\ UNCHANGED <<filesPanels, ran, navError, navigationHistory>>
  /\ UNCHANGED <<alignerVars, renderVars, request, diffVars, viewVars, listenerVars, registryVars, htmlVars>>

\* showCommitFiles in a history panel: the closure re-opening the history of
\* the panel's file is pushed, then the commit's files are opened
HistoryShowCommitFiles ==
  /\ Pushed < MaxNavigation
  /\ \E f \in historyPanels : \E c \in Range(GitLog(f)) :
       /\ navigationHistory' = Append(navigationHistory, Closure("openFileHistory", f))
       /\ filesPanels' = filesPanels \cup {c}
  /\ UNCHANGED <<historyPanels, ran, navError>>
  /\ UNCHANGED <<alignerVars, renderVars, request, diffVars, viewVars, listenerVars, registryVars, htmlVars>>

\* openFileHistory in a commit-files panel: the closure re-opening the files of
\* the panel's commit is pushed, then the history of the file is opened
FilesOpenFileHistory ==
  /\ Pushed < MaxNavigation
  /\ \E c \in filesPanels : \E f \in GetCommitFiles(c) :
       /\ navigationHistory' = Append(navigationHistory, Closure("openCommitFiles", c))
       /\ historyPanels' = historyPanels \cup {f}
  /\ UNCHANGED <<filesPanels, ran, navError>>
  /\ UNCHANGED <<alignerVars, renderVars, request, diffVars, viewVars, listenerVars, registryVars, htmlVars>>

\* the command fastGitFileHistory.back: `const last = navigationHistory.pop();
\* if (last) last();`; calling undefined is a TypeError
BackCommand ==
  LET last == Popped(navigationHistory)
  IN /\ navigationHistory' = AfterPop(navigationHistory)
     /\ IF Truthy(last)
        THEN IF last = Undefined
             THEN /\ navError' = TRUE
                  /\ UNCHANGED <<historyPanels, filesPanels, ran>>
             ELSE /\ ran' = Append(ran, last)
                  /\ historyPanels' =
                       IF last.run = "openFileHistory" THEN historyPanels \cup {last.arg} ELSE historyPanels
                  /\ filesPanels' =
                       IF last.run = "openCommitFiles" THEN filesPanels \cup {last.arg} ELSE filesPanels
                  /\ UNCHANGED navError
        ELSE UNCHANGED <<historyPanels, filesPanels, ran, navError>>
     /\ UNCHANGED <<alignerVars, renderVars, request, diffVars, viewVars, listenerVars, registryVars, htmlVars>>

NavigationInit ==
  /\ CallOn({ << <<>>, <<>> >> })
  /\ RenderIdle
  /\ HostIdle

NavigationNext ==
  \/ ViewCommand
  \/ HistoryShowCommitFiles
  \/ FilesOpenFileHistory
  \/ BackCommand

\* the panels of the drafts and the back command
NavigationSpec == NavigationInit /\ [][NavigationNext]_vars

\* ---------------------------------------------------------------- GitCommitFilesPanel.currentPanels
\* bound: the commit-files panels made
MaxCommitPanels == 3

\* the keys `${commitSha}@${repoPath}` of the registry
Keys == { <<c, "@", "repo">> : c \in Commits }

\* mutant: the registry never reports a key
HasNever(map, key) == FALSE

\* Map.prototype.has / set / delete
Has(map, key) == key \in DOMAIN map

Set(map, key, value) == [k \in DOMAIN map \cup {key} |-> IF k = key THEN value ELSE map[k]]

Delete(map, key) == [k \in DOMAIN map \ {key} |-> map[k]]

\* GitCommitFilesPanel.createOrShow(ctx, commitSha, repoPath): a panel
\* registered under the key is revealed; otherwise a panel is made and
\* registered under the key
FilesCreateOrShowOn(key) ==
  /\ IF Has(currentPanels, key)
     THEN UNCHANGED <<currentPanels, commitPanels>>
     ELSE /\ Len(commitPanels) < MaxCommitPanels
          /\ commitPanels' = Append(commitPanels, [key |-> key, disposed |-> FALSE])
          /\ currentPanels' = Set(currentPanels, key, Len(commitPanels) + 1)
  /\ UNCHANGED <<alignerVars, renderVars, request, diffVars, panelVars, listenerVars, navVars, htmlVars>>

FilesCreateOrShow == \E key \in Keys : FilesCreateOrShowOn(key)

\* the user closes a commit-files panel: its onDidDispose callback deletes the
\* key of the panel from the registry and disposes the panel's disposables
FilesPanelDisposed ==
  /\ \E p \in 1..Len(commitPanels) :
       /\ ~commitPanels[p].disposed
       /\ commitPanels' = [commitPanels EXCEPT ![p].disposed = TRUE]
       /\ currentPanels' = Delete(currentPanels, commitPanels[p].key)
  /\ UNCHANGED <<alignerVars, renderVars, request, diffVars, panelVars, listenerVars, navVars, htmlVars>>

RegistryInit ==
  /\ CallOn({ << <<>>, <<>> >> })
  /\ RenderIdle
  /\ HostIdle

RegistryNext ==
  \/ FilesCreateOrShow
  \/ FilesPanelDisposed

\* the commit-files panels of one extension host
RegistrySpec == RegistryInit /\ [][RegistryNext]_vars

\* ---------------------------------------------------------------- getFullFileDiffHtml
\* bound: the lines of the file content
MaxContent == 2

\* the lines the file content is drawn from: the empty line, a letter, lines
\* that begin like the lines of a diff, a character that html escapes
ContentLines ==
  { <<>>, <<"x">>, <<"+", "x">>, <<"+", "+">>, <<"-", "x">>, <<"@", "@">>, <<"<">> }

\* the file contents: one to MaxContent lines joined by newlines
Contents == { Join(ls) : ls \in SeqsUpTo(ContentLines, MaxContent) \ {<<>>} }

\* a hunk header `@@ -a +b @@` of git diff -U0
HunkHeader(a, b) == <<"@", "@", " ", "-", a, " ", "+", b, " ", "@", "@">>

\* what `git diff` prints when it succeeds: nothing, one hunk that adds
\* line 2, the file header and one hunk that replaces line 1
GitDiffs ==
  { <<>>,
    Join(<< HunkHeader("1", "2"), <<"+", "x">>, <<>> >>),
    Join(<< <<"-", "-", "-", " ", "a">>, <<"+", "+", "+", " ", "b">>,
            HunkHeader("1", "1"), <<"-", "x">>, <<"+", "x">>, <<>> >>) }

\* String.prototype.startsWith
StartsWith(str, prefix) == Len(prefix) <= Len(str) /\ SubSeq(str, 1, Len(prefix)) = prefix

Digits == {"1", "2", "3"}

\* parseInt of one digit
ParseInt(d) == CASE d = "1" -> 1 [] d = "2" -> 2 [] d = "3" -> 3

\* /@@ -\d+,?\d* \+(\d+),?\d* @@/.exec(line) on the hunk headers above: the
\* number of its group 1, or 0 when the line does not match
HunkStart(line) ==
  IF /\ Len(line) = 11
     /\ line[5] \in Digits
     /\ line[8] \in Digits
     /\ line = HunkHeader(line[5], line[8])
  THEN ParseInt(line[8])
  ELSE 0

\* `'+' + l`
Plus(l) == <<"+">> \o l

\* `baseContent.split('\n').map(l => '+' + l).join('\n')`
FirstCommitDiff(content) ==
  Join([k \in 1..Len(Split(content)) |-> Plus(Split(content)[k])])

AposEntity == <<"&", "#", "0", "3", "9", ";">>

\* escapeHtml: one pass over the characters & < > " '
RECURSIVE EscapeHtml(_)
EscapeHtml(str) ==
  IF str = <<>> THEN <<>>
  ELSE (CASE Head(str) = "&" -> AmpEntity
          [] Head(str) = "<" -> LtEntity
          [] Head(str) = ">" -> GtEntity
          [] Head(str) = "\"" -> QuotEntity
          [] Head(str) = "'" -> AposEntity
          [] OTHER -> <<Head(str)>>) \o EscapeHtml(Tail(str))

\* `<span class="add">${escapeHtml(l)}</span>` and its del counterpart
SpanOf(class, l) ==
  <<OpenTag("span", <<[name |-> "class", value |-> class]>>)>> \o Chars(EscapeHtml(l)) \o <<CloseTag("span")>>

AddClass == <<"a", "d", "d">>
DelClass == <<"d", "e", "l">>

\* the callback of the map over the content lines; idx is the 0-based index
MarkedLine(l, idx, added, removed) ==
  IF idx \in added THEN SpanOf(AddClass, l)
  ELSE IF idx \in removed THEN SpanOf(DelClass, l)
  ELSE Chars(EscapeHtml(l))

\* join('\n') of html strings
RECURSIVE JoinMarkup(_)
JoinMarkup(ls) ==
  IF ls = <<>> THEN <<>>
  ELSE IF Len(ls) = 1 THEN ls[1]
  ELSE ls[1] \o <<Ch(NL)>> \o JoinMarkup(Tail(ls))

\* the html of the content under the marked lines
MarkedHtml(content, added, removed) ==
  JoinMarkup([k \in 1..Len(Split(content)) |-> MarkedLine(Split(content)[k], k - 1, added, removed)])

\* '// Unable to load file/diff'
Unable == Chars(<<"/", "/", " ", "U", "n", "a", "b", "l", "e">>)

\* getFullFileDiffHtml(filePath, commit, repoPath) up to the loop: the content
\* is read (for WORKING from the disk, where a failure ends the call in the
\* outer catch; for a commit from git show, where a failure gives ''), then the
\* diff is asked for; when it fails, WORKING keeps '' and a commit is taken
\* for a first commit
GetFullFileDiffHtmlOn(commit, content, readFails, diffFails, diff) ==
  /\ hpc = "idle"
  /\ IF commit = "WORKING" /\ readFails
     THEN /\ diffHtml' = Unable
          /\ hpc' = "returned"
          /\ UNCHANGED <<baseContent, diffOutput, firstCommit>>
     ELSE /\ baseContent' = IF readFails THEN <<>> ELSE content
          /\ diffOutput' = IF ~diffFails THEN diff
                           ELSE IF commit = "WORKING" THEN <<>>
                           ELSE FirstCommitDiff(baseContent')
          /\ firstCommit' = (commit # "WORKING" /\ diffFails)
          /\ hpc' = "scan"
          /\ UNCHANGED diffHtml
  /\ UNCHANGED <<lineNo, currLine, addedLines, removedLines>>
  /\ UNCHANGED <<alignerVars, renderVars, request, diffVars, panelVars, listenerVars, navVars, registryVars>>

GetFullFileDiffHtml ==
  \E commit \in {"WORKING", "c1"}, content \in Contents, readFails, diffFails \in BOOLEAN, diff \in GitDiffs :
    GetFullFileDiffHtmlOn(commit, content, readFails, diffFails, diff)

\* one round of `for (const line of diffOutput.split('\n'))`
ScanLine ==
  /\ hpc = "scan"
  /\ lineNo < Len(Split(diffOutput))
  /\ LET line == Split(diffOutput)[lineNo + 1] IN
       IF StartsWith(line, <<"@", "@">>)
       THEN /\ currLine' = IF HunkStart(line) # 0 THEN HunkStart(line) - 1 ELSE currLine
            /\ UNCHANGED <<addedLines, removedLines>>
       ELSE IF StartsWith(line, <<"+">>) /\ ~StartsWith(line, <<"+", "+", "+">>)
       THEN /\ addedLines' = addedLines \cup {currLine}
            /\ currLine' = currLine + 1
            /\ UNCHANGED removedLines
       ELSE IF StartsWith(line, <<"-">>) /\ ~StartsWith(line, <<"-", "-", "-">>)
       THEN /\ removedLines' = removedLines \cup {currLine}
            /\ UNCHANGED <<addedLines, currLine>>
       ELSE /\ currLine' = currLine + 1
            /\ UNCHANGED <<addedLines, removedLines>>
  /\ lineNo' = lineNo + 1
  /\ UNCHANGED <<baseContent, diffOutput, firstCommit, diffHtml, hpc>>
  /\ UNCHANGED <<alignerVars, renderVars, request, diffVars, panelVars, listenerVars, navVars, registryVars>>

\* after the loop: the html is built from the content and returned
BuildHtml ==
  /\ hpc = "scan"
  /\ lineNo = Len(Split(diffOutput))
  /\ diffHtml' = MarkedHtml(baseContent, addedLines, removedLines)
  /\ hpc' = "returned"
  /\ UNCHANGED <<baseContent, diffOutput, firstCommit, lineNo, currLine, addedLines, removedLines>>
  /\ UNCHANGED <<alignerVars, renderVars, request, diffVars, panelVars, listenerVars, navVars, registryVars>>

DiffHtmlInit ==
  /\ CallOn({ << <<>>, <<>> >> })
  /\ RenderIdle
  /\ HostIdle

DiffHtmlNext ==
  \/ GetFullFileDiffHtml
  \/ ScanLine
  \/ BuildHtml

\* one call of getFullFileDiffHtml
DiffHtmlSpec == DiffHtmlInit /\ [][DiffHtmlNext]_vars

\* ---------------------------------------------------------------- vocabulary of the properties
TypesOf(ms) == [k \in 1..Len(ms) |-> ms[k].type]
TextsOf(ms) == [k \in 1..Len(ms) |-> ms[k].text]

IsOldSide(r) == r.type \in {"same", "del"}
IsNewSide(r) == r.type \in {"same", "add"}
IsChange(r) == r.type # "same"
IsSame(r) == r.type = "same"

\* the texts of the same/del records and of the same/add records, in order
OldSide(ms) == TextsOf(SelectSeq(ms, IsOldSide))
NewSide(ms) == TextsOf(SelectSeq(ms, IsNewSide))

\* the sequence made of one empty-string line
LoneEmptyLine == << <<>> >>

\* the line sequence a caller's sequence stands for once it went through the
\* text interface: a lone empty-string line is not distinguishable from no line
Effective(ls) == IF ls = LoneEmptyLine THEN <<>> ELSE ls

\* the subsequence of s at the positions S
RECURSIVE Pick(_, _, _)
Pick(s, S, k) ==
  IF k > Len(s) THEN <<>>
  ELSE (IF k \in S THEN <<s[k]>> ELSE <<>>) \o Pick(s, S, k + 1)

SubSeqs(s) == { Pick(s, S, 1) : S \in SUBSET (1..Len(s)) }

\* the length of a longest common subsequence, from its definition
LcsLength(x, y) ==
  LET common == SubSeqs(x) \cap SubSeqs(y)
  IN CHOOSE k \in 0..Len(x) : (\E s \in common : Len(s) = k) /\ (\A s \in common : Len(s) <= k)

AllOfType(ms, ty) == \A k \in 1..Len(ms) : ms[k].type = ty

Done == pc = "done"

\* ---------------------------------------------------------------- C1
\* C1 as stated: when the function has returned, the texts of the same/del
\* records are exactly old and the texts of the same/add records exactly new,
\* for every pair of line sequences
C1_ReconstructionAsStated ==
  Done => OldSide(merged) = old /\ NewSide(merged) = new

\* C1 amended: when the function has returned, the same/del texts are exactly
\* old and the same/add texts exactly new, except that a side consisting of one
\* empty-string line is reconstructed as the empty sequence
C1_Reconstruction ==
  Done => OldSide(merged) = Effective(old) /\ NewSide(merged) = Effective(new)

\* a finished run on inputs with a duplicated line and an empty-string line
\* that produced records of all three types
C1_Witness ==
  /\ Done
  /\ Len(old) = 3 /\ old[1] = old[3] /\ old[2] = <<>>
  /\ \E k \in 1..Len(new) : new[k] = <<>>
  /\ {merged[k].type : k \in 1..Len(merged)} = {"same", "del", "add"}

\* ---------------------------------------------------------------- C2
\* C2 as stated: the number of records that are not same equals
\* |old| + |new| - 2*L and the number of same records equals L, with L the
\* length of a longest common subsequence of old and new
C2_MinimalityAsStated ==
  Done =>
    /\ Len(SelectSeq(merged, IsChange)) = Len(old) + Len(new) - 2 * LcsLength(old, new)
    /\ Len(SelectSeq(merged, IsSame)) = LcsLength(old, new)

\* C2 amended: the same counts, where a side consisting of one empty-string
\* line counts as the empty sequence
C2_Minimality ==
  Done =>
    /\ Len(SelectSeq(merged, IsChange)) =
         Len(Effective(old)) + Len(Effective(new))
           - 2 * LcsLength(Effective(old), Effective(new))
    /\ Len(SelectSeq(merged, IsSame)) = LcsLength(Effective(old), Effective(new))

\* a finished run whose inputs share a common subsequence of length 2 that is
\* neither input, so that the result mixes kept and changed lines
C2_Witness ==
  /\ Done
  /\ Len(old) = 3 /\ Len(new) = 3
  /\ LcsLength(old, new) = 2
  /\ Len(SelectSeq(merged, IsChange)) = 2

\* ---------------------------------------------------------------- C3
\* the step of the forward walk at a position where the two lines differ
C3_Step ==
  (InWalk /\ oldLines[i + 1] # newLines[j + 1]) =>
    IF dp[i + 1][j] >= dp[i][j + 1]
    THEN merged' = Append(merged, Rec("del", oldLines[i + 1])) /\ i' = i + 1 /\ j' = j
    ELSE merged' = Append(merged, Rec("add", newLines[j + 1])) /\ i' = i /\ j' = j + 1

\* the concrete scenario old=[a,b,c], new=[a,x,c]
C3_Scenario ==
  (Done /\ <<old, new>> = Scenario1) =>
    merged = << Rec("same", <<"a">>), Rec("del", <<"b">>), Rec("add", <<"x">>), Rec("same", <<"c">>) >>

\* C3: at every position of the forward walk where old[i] differs from new[j]
\* a del record for old[i] is emitted when dp[i+1][j] >= dp[i][j+1] and an add
\* record for new[j] otherwise, and [a,b,c] against [a,x,c] yields
\* [same a, del b, add x, same c]
C3_TieBreak == [][C3_Step]_vars /\ []C3_Scenario

\* the scenario has run to its end with the deletion placed before the insertion
C3_Witness ==
  /\ Done
  /\ <<old, new>> = Scenario1
  /\ TypesOf(merged) = <<"same", "del", "add", "same">>

\* ---------------------------------------------------------------- C4
\* C4 as stated: applied to (X, X) the function returns |X| records, all
\* same, whose texts are X
C4_IdentityAsStated ==
  (Done /\ old = new) =>
    /\ Len(merged) = Len(old)
    /\ AllOfType(merged, "same")
    /\ TextsOf(merged) = old

\* C4 amended: applied to (X, X) the function returns |X| records, all same,
\* whose texts are X, unless X is one empty-string line, for which it returns
\* no record
C4_Identity ==
  (Done /\ old = new) =>
    /\ Len(merged) = Len(Effective(old))
    /\ AllOfType(merged, "same")
    /\ TextsOf(merged) = Effective(old)

\* a finished run on two identical three-line inputs with a duplicated line
C4_Witness ==
  /\ Done
  /\ old = new
  /\ Len(old) = 3 /\ old[1] = old[2]
  /\ Len(merged) = 3

\* ---------------------------------------------------------------- C5
\* C5 as stated: with an empty old the function returns |new| records, all
\* add, in the order of new
C5_EmptyOldAsStated ==
  (Done /\ old = <<>>) =>
    /\ Len(merged) = Len(new)
    /\ AllOfType(merged, "add")
    /\ TextsOf(merged) = new

\* C5 amended: with an empty old the function returns |new| records, all add,
\* in the order of new, unless new is one empty-string line, for which it
\* returns no record; for new=[hello] the result is [add hello]
C5_EmptyOld ==
  (Done /\ old = <<>>) =>
    /\ Len(merged) = Len(Effective(new))
    /\ AllOfType(merged, "add")
    /\ TextsOf(merged) = Effective(new)
    /\ (new = <<Hello>> => merged = << Rec("add", Hello) >>)

\* a finished run with an empty old and a new holding empty-string lines
C5_Witness ==
  /\ Done
  /\ old = <<>>
  /\ Len(new) = 3 /\ new[1] = <<>> /\ new[3] = <<>>
  /\ Len(merged) = 3

\* ---------------------------------------------------------------- C6
\* C6 as stated: with an empty new the function returns |old| records, all
\* del, in the order of old
C6_EmptyNewAsStated ==
  (Done /\ new = <<>>) =>
    /\ Len(merged) = Len(old)
    /\ AllOfType(merged, "del")
    /\ TextsOf(merged) = old

\* C6 amended: with an empty new the function returns |old| records, all del,
\* in the order of old, unless old is one empty-string line, for which it
\* returns no record
C6_EmptyNew ==
  (Done /\ new = <<>>) =>
    /\ Len(merged) = Len(Effective(old))
    /\ AllOfType(merged, "del")
    /\ TextsOf(merged) = Effective(old)

\* a finished run with an empty new and an old holding empty-string lines
C6_Witness ==
  /\ Done
  /\ new = <<>>
  /\ Len(old) = 3 /\ old[2] = <<>> /\ old[3] = <<>>
  /\ Len(merged) = 3

\* ---------------------------------------------------------------- C7
\* C7: applied to an empty old and an empty new the function returns no record
C7_BothEmpty ==
  (Done /\ old = <<>> /\ new = <<>>) => merged = <<>>

\* the run on two empty inputs has returned
C7_Witness ==
  Done /\ old = <<>> /\ new = <<>> /\ oldText = <<>> /\ newText = <<>>

\* ---------------------------------------------------------------- C8
\* C8: the returned Mergeview never has more than |old| + |new| records
C8_LengthBound ==
  Done => Len(merged) <= Len(old) + Len(new)

\* a finished run on disjoint inputs, where the bound is met with equality
C8_Witness ==
  /\ Done
  /\ Len(old) = 3 /\ Len(new) = 3
  /\ Len(merged) = Len(old) + Len(new)

\* ---------------------------------------------------------------- C10
\* every step of the run that changes i or j during the walk raises i + j by
\* at least one
C10_Progress ==
  pc = "walk" /\ pc' = "walk" => i' + j' > i + j

\* C10: the function never reads outside the dp table and never fails, every
\* step of the forward walk strictly increases i + j, and every run reaches
\* the return
C10_Totality ==
  /\ [](~badRead /\ pc # "failed")
  /\ [][C10_Progress]_vars
  /\ <>Done

\* finished runs on identical and on completely disjoint non-empty inputs are
\* reached; this one is the disjoint case, with all table reads inside the table
C10_Witness ==
  /\ Done
  /\ ~badRead
  /\ Len(old) = 3 /\ Len(new) = 3
  /\ \A k \in 1..3 : \A l \in 1..3 : old[k] # new[l]

\* ---------------------------------------------------------------- vocabulary of the render properties
Rendered == rpc = "rendered"
LinesSplit == rpc \in {"split", "rendered"}

IsPrefix(p, str) == Len(p) <= Len(str) /\ SubSeq(str, 1, Len(p)) = p
Drop(str, k) == SubSeq(str, k + 1, Len(str))

\* the characters an html parser reads from escaped characters
RECURSIVE Unescape(_)
Unescape(str) ==
  IF str = <<>> THEN <<>>
  ELSE IF IsPrefix(AmpEntity, str) THEN <<"&">> \o Unescape(Drop(str, Len(AmpEntity)))
  ELSE IF IsPrefix(LtEntity, str) THEN <<"<">> \o Unescape(Drop(str, Len(LtEntity)))
  ELSE IF IsPrefix(GtEntity, str) THEN <<">">> \o Unescape(Drop(str, Len(GtEntity)))
  ELSE IF IsPrefix(QuotEntity, str) THEN <<"\"">> \o Unescape(Drop(str, Len(QuotEntity)))
  ELSE <<Head(str)>> \o Unescape(Tail(str))

IsCharToken(tok) == tok.k = "c"

\* the text of an html line: its tags removed, its characters unescaped
TextContent(line) ==
  LET cs == SelectSeq(line, IsCharToken) IN Unescape([x \in 1..Len(cs) |-> cs[x].c])

\* the tags of a line are balanced: every closing tag closes the innermost
\* open tag and no tag is left open at the end of the line
RECURSIVE BalancedFrom(_, _, _)
BalancedFrom(line, k, stack) ==
  IF k > Len(line) THEN stack = <<>>
  ELSE IF line[k].k = "open" THEN BalancedFrom(line, k + 1, <<line[k].tag>> \o stack)
  ELSE IF line[k].k = "close"
       THEN /\ stack # <<>>
            /\ Head(stack) = line[k].tag
            /\ BalancedFrom(line, k + 1, Tail(stack))
  ELSE BalancedFrom(line, k + 1, stack)

Balanced(line) == BalancedFrom(line, 1, <<>>)

\* the number of line breaks in a text
RECURSIVE Breaks(_)
Breaks(str) == IF str = <<>> THEN 0 ELSE (IF Head(str) = NL THEN 1 ELSE 0) + Breaks(Tail(str))

\* the elements of a node list with the lines (0-based) their content touches,
\* the list starting on the given line
RECURSIVE ElementsFrom(_, _, _)
ElementsFrom(nodes, k, line) ==
  IF k > Len(nodes) THEN [line |-> line, elems |-> {}]
  ELSE IF nodes[k].nodeType = "text"
       THEN ElementsFrom(nodes, k + 1, line + Breaks(nodes[k].nodeValue))
       ELSE LET inner == ElementsFrom(nodes[k].childNodes, 1, line)
                after == ElementsFrom(nodes, k + 1, inner.line)
            IN [line |-> after.line,
                elems |-> inner.elems \cup after.elems
                          \cup { [tag |-> nodes[k].tagName, attrs |-> nodes[k].attributes,
                                  first |-> line, last |-> inner.line] }]

ElementsOf(nodes) == ElementsFrom(nodes, 1, 0).elems

\* the attributes an html parser reads from an opening tag
ParsedAttributes(tok) ==
  [a \in 1..Len(tok.attrs) |-> [name |-> tok.attrs[a].name, value |-> Unescape(tok.attrs[a].value)]]

\* the line holds an opening tag of the element, with its attributes, and a
\* closing tag of the element after it
HoldsFragment(line, e) ==
  \E x \in 1..Len(line) :
    /\ line[x].k = "open"
    /\ line[x].tag = e.tag
    /\ ParsedAttributes(line[x]) = e.attrs
    /\ \E y \in (x + 1)..Len(line) : line[y].k = "close" /\ line[y].tag = e.tag

\* every element appears as a complete fragment on every line it touches
Reopened(lines, nodes) ==
  \A e \in ElementsOf(nodes) :
    \A x \in e.first..e.last : x + 1 \in 1..Len(lines) /\ HoldsFragment(lines[x + 1], e)

\* the text of every output line is the line of the highlighted text at the
\* same index, and there is no output line beyond the lines of the text
Aligned(lines, text) ==
  LET expected == Split(text)
  IN /\ Len(lines) <= Len(expected)
     /\ \A k \in 1..Len(expected) :
          (IF k <= Len(lines) THEN TextContent(lines[k]) ELSE <<>>) = expected[k]

\* ---------------------------------------------------------------- C11
\* C11: once a Mergeview is rendered there are exactly as many line wrappers as
\* the Mergeview has records, for every Mergeview (the empty one included) and
\* every tree the highlighter returns
C11_LineCount ==
  Rendered => Len(frag) = Len(merged) /\ Len(containerOut) = Len(merged)

\* ---------------------------------------------------------------- C12
\* C12: in every line of the split markup the tags are balanced within the line
C12_BalancedLines ==
  LinesSplit =>
    /\ \A k \in 1..Len(hlLines) : Balanced(hlLines[k])
    /\ \A k \in 1..Len(resultLines) : Balanced(resultLines[k])

\* ---------------------------------------------------------------- C13
\* the span of concrete scenario 3: class "s" around a two-line text
Scenario3 ==
  << ElementNode("span", << [name |-> "class", value |-> <<"s">>] >>, << TextNode(<<"a", NL, "a">>) >>) >>

\* C13: every element of the highlight tree appears on each output line its
\* content touches as an opening tag with the same name and attributes,
\* followed by a closing tag; in scenario 3 both lines hold the whole fragment
C13_Reopened ==
  LinesSplit =>
    /\ Reopened(hlLines, tree)
    /\ Reopened(resultLines, tree)
    /\ (tree = Scenario3 =>
          /\ Len(hlLines) = 2
          /\ \A k \in 1..2 : HoldsFragment(hlLines[k], [tag |-> "span", attrs |-> Scenario3[1].attributes]))

\* ---------------------------------------------------------------- C14
\* C14: for every k the text of output line k, tags removed, is the k-th line
\* of the highlighted text
C14_Aligned ==
  LinesSplit => Aligned(hlLines, combinedText) /\ Aligned(resultLines, combinedText)

\* ---------------------------------------------------------------- C15
\* the class a record's kind stands for: add, del, or neither
KindClass(ty) ==
  CASE ty = "add" -> "line add"
    [] ty = "del" -> "line del"
    [] ty = "same" -> "line"

\* wrapper x carries the kind of record x and exactly line x of the split
ZipsAsStated(wrappers, lines) ==
  \A x \in 1..Len(merged) :
    /\ x <= Len(wrappers)
    /\ wrappers[x].className = KindClass(merged[x].type)
    /\ x <= Len(lines)
    /\ wrappers[x].innerHTML = lines[x]

\* wrapper x carries the kind of record x and line x of the split, or the
\* placeholder when that line is empty or was trimmed away
Zips(wrappers, lines) ==
  \A x \in 1..Len(merged) :
    /\ x <= Len(wrappers)
    /\ wrappers[x].className = KindClass(merged[x].type)
    /\ wrappers[x].innerHTML = (IF x <= Len(lines) /\ lines[x] # <<>> THEN lines[x] ELSE Nbsp)

\* C15 as stated: for every index below the Mergeview length the rendered line
\* carries the kind of the record at that index and its markup is the line of
\* the split highlight output at that index
C15_ZipAsStated ==
  Rendered => ZipsAsStated(frag, hlLines) /\ ZipsAsStated(containerOut, resultLines)

\* C15 amended: for every index below the Mergeview length the rendered line
\* carries the kind of the record at that index, and its markup is the line of
\* the split highlight output at that index when that line exists and is not
\* empty, and the placeholder &nbsp; otherwise
C15_Zip ==
  Rendered => Zips(frag, hlLines) /\ Zips(containerOut, resultLines)

\* a rendered Mergeview with records of the three kinds, a highlight element,
\* and a last line that the split trimmed away
C15_Witness ==
  /\ Rendered
  /\ {merged[x].type : x \in 1..Len(merged)} = {"same", "add", "del"}
  /\ ElementsOf(tree) # {}
  /\ Len(hlLines) < Len(merged)
  /\ frag[Len(merged)].innerHTML = Nbsp

\* ---------------------------------------------------------------- C16
\* the markup of a record's text without highlighting: the escaped text, the
\* placeholder standing for an empty text
PlainMarkup(text) == IF text = <<>> THEN Nbsp ELSE Chars(EscapeHtmlTextNode(text))

PlainRender(wrappers) ==
  /\ Len(wrappers) = Len(merged)
  /\ \A x \in 1..Len(merged) :
       /\ x <= Len(wrappers)
       /\ wrappers[x].className = KindClass(merged[x].type)
       /\ wrappers[x].innerHTML = PlainMarkup(merged[x].text)

\* C16: when the highlighter throws or is unavailable the render still yields
\* one line per record, each holding the escaped raw text of its record, no
\* highlight markup, and the record's add/del class, and the render completes
C16_Fallback ==
  /\ (rpc = "highlighted" /\ ~hlOk) => ENABLED SplitHighlighted
  /\ (rpc = "split" /\ ~hlOk) => ENABLED BuildFragment
  /\ (Rendered /\ ~hlOk) => PlainRender(frag) /\ PlainRender(containerOut)

\* ---------------------------------------------------------------- getFullFileDiffPayload: properties
\* the payload has been returned to the caller
PayloadReturned == rpc = "message"

\* C18: when the fetch of the old text, of the new text or of both fails, the
\* failed side is aligned as the empty line sequence and the payload is still
\* returned: all add with the new lines when only old is missing, all del with
\* the old lines when only new is missing, empty when both are; the call never
\* ends in an exception and can always go on until the payload is returned
C18_ContentUnavailable ==
  /\ pc # "failed"
  /\ (~PayloadReturned => ENABLED PayloadNext)
  /\ (pc \notin {"fetch", "start"} /\ ~request.oldOk => oldLines = <<>>)
  /\ (pc \notin {"fetch", "start"} /\ ~request.newOk => newLines = <<>>)
  /\ (PayloadReturned /\ ~request.oldOk /\ request.newOk =>
        /\ AllOfType(merged, "add")
        /\ types = MergedTypes(merged)
        /\ combinedText = Join(Effective(new)))
  /\ (PayloadReturned /\ request.oldOk /\ ~request.newOk =>
        /\ AllOfType(merged, "del")
        /\ types = MergedTypes(merged)
        /\ combinedText = Join(Effective(old)))
  /\ (PayloadReturned /\ ~request.oldOk /\ ~request.newOk =>
        /\ types = <<>>
        /\ combinedText = <<>>)

\* a payload returned although the fetch of a non-empty old text failed, for
\* the working copy
C18_Witness ==
  /\ PayloadReturned
  /\ request.commit = "WORKING"
  /\ ~request.oldOk
  /\ request.newOk
  /\ Len(old) = 2
  /\ Len(types) = 2

\* ---------------------------------------------------------------- showDiff / updateDiff: properties
\* every response has been delivered: no request waits, no fetch runs, no
\* updateDiff message is in flight
AllDelivered == toHost = <<>> /\ fetching = {} /\ toWebview = <<>>

\* C17: last request wins: once every response has been delivered, the view
\* displays the diff of the revision selected last, in whatever order the
\* fetches ended
C17_LastRequestWins == (selected # "none" /\ AllDelivered) => displayed = selected

\* ---------------------------------------------------------------- history views: properties
\* the entry of the working copy, as each of the two kinds of view names it
WorkingEntries == {"WORKING", "uncommitted"}

\* C19: when the commit listing of an opening failed, the view shows the
\* working-copy entry alone; when it succeeded, the view shows the
\* working-copy entry followed by the commits in the order git listed them
C19_ListingNotFatal ==
  \A v \in 1..Len(views) :
    /\ views[v].listing = "logFails" =>
         /\ views[v].html
         /\ Len(views[v].commitList) = 1
         /\ views[v].commitList[1] \in WorkingEntries
    /\ views[v].listing = "ok" =>
         /\ views[v].html
         /\ views[v].commitList # <<>>
         /\ Head(views[v].commitList) \in WorkingEntries
         /\ Tail(views[v].commitList) = GitLog(views[v].file)

\* the step is an operation of view v itself: a revision selected in it, its
\* commit files asked for, the history of its own file opened again, or git
\* answering about its own file
OwnOperation(v) ==
  \/ \E c \in Range(views[v].commitList) : ShowDiffOn(v, c)
  \/ ShowCommitFilesOn(v)
  \/ currentPanel = v /\ CreateOrShowOn(views[v].file)
  \/ \E k \in 1..Len(updating), outcome \in Outcomes :
       /\ updating[k] = [view |-> v, file |-> views[v].file]
       /\ UpdateDoneOn(k, outcome)

\* C20: the views are independent: the file, the commit list and the diff of
\* an open view change only by an operation of that view, and no piece of
\* mutable state holds what two different views wrote
C20_Independent ==
  /\ [][\A v \in 1..Len(views) : views'[v] # views[v] => OwnOperation(v)]_vars
  /\ [](\A a, b \in Range(navigationHistory) : a.owner = b.owner)

\* ---------------------------------------------------------------- the aligner: further properties
\* ls[k..] of a JavaScript array (0-based k)
Suffix(ls, k) == SubSeq(ls, k + 1, Len(ls))

\* the backward fill is over and did not fail
Filled == pc \in {"walk", "done"}

\* C22: after the backward fill, dp[r][c] is the length of a longest common
\* subsequence of oldLines[r..] and newLines[c..] for all 0 <= r <= m and
\* 0 <= c <= n, and the last row and the last column are 0
C22_TableMeaning ==
  Filled =>
    /\ DOMAIN dp = 0..m
    /\ \A r \in 0..m :
         /\ DOMAIN dp[r] = 0..n
         /\ dp[r][n] = 0
         /\ \A c \in 0..n :
              /\ dp[m][c] = 0
              /\ dp[r][c] = LcsLength(Suffix(oldLines, r), Suffix(newLines, c))

\* a filled 3x3 table of two different sequences with two common lines
C22_Witness ==
  /\ Filled
  /\ m = 3
  /\ n = 3
  /\ oldLines # newLines
  /\ dp[0][0] = 2
  /\ dp[1][1] = 1

\* C25: in the returned Mergeview an add record is never immediately followed
\* by a del record: in every run of changes the deletions come first
C25_DelBeforeAdd ==
  Done => \A k \in 1..(Len(merged) - 1) : ~(merged[k].type = "add" /\ merged[k + 1].type = "del")

\* a returned Mergeview with a run of two deletions followed by an insertion
C25_Witness ==
  /\ Done
  /\ \E k \in 1..(Len(merged) - 2) :
       /\ merged[k].type = "del"
       /\ merged[k + 1].type = "del"
       /\ merged[k + 2].type = "add"

\* C26: the text of the payload has as many newline-separated lines as the
\* types array has entries, and line k of the text is the text of record k
C26_PayloadAligned ==
  PayloadReturned =>
    /\ Len(Split(combinedText)) = Len(types)
    /\ Len(types) = Len(merged)
    /\ \A k \in 1..Len(merged) :
         /\ types[k] = merged[k].type
         /\ Split(combinedText)[k] = merged[k].text

\* the ids of the showDiff requests whose fetch is running
Running == { f.id : f \in fetching }

\* the step answers exactly the request f: f stops running and one updateDiff
\* message, for the commit of f, is added to the messages of the view
Answers(f) ==
  /\ fetching' = fetching \ {f}
  /\ toWebview' = Append(toWebview, f.commit)

\* C21: one cycle per selection: a request the host received stops running
\* only by being answered, an updateDiff message is posted only as the one
\* answer of a running request, a request that was answered never runs again,
\* and every request received is answered in the end
C21_OneCyclePerSelection ==
  /\ [][fetching' # fetching \/ Len(toWebview') > Len(toWebview) =>
          \/ \E f \in fetching : Answers(f)
          \/ /\ toHost # <<>>
             /\ fetching' = fetching \cup {[id |-> nextId, commit |-> Head(toHost)]}
             /\ nextId \notin Running
             /\ \A f \in fetching : f.id < nextId
             /\ toWebview' = toWebview]_vars
  /\ \A id \in 1..MaxSelections : (id \in Running) ~> (id \notin Running)

\* two requests run at once and the one received last is answered first
C21_Witness ==
  /\ Running = {1}
  /\ nextId = 3
  /\ toWebview # <<>>

\* ---------------------------------------------------------------- the updateDiff listener: properties
\* C23: a render replaces: after an updateDiff message the displayed lines are
\* exactly the lines rendered from the text and the types of that message,
\* whatever was displayed before
C23_Replaces ==
  received > 0 =>
    /\ diffEl = frag
    /\ diffEl = Wrappers(SplitHighlightedHtmlToLines(tree), types)
    /\ Len(diffEl) = LineCount(hlLines, types)

\* a one-line diff without changes displayed after a two-line diff
C23_Witness ==
  /\ received = 2
  /\ before = 2
  /\ Len(diffEl) = 1
  /\ diffEl[1].className = "line"
  /\ diffEl[1].innerHTML # Nbsp

\* ---------------------------------------------------------------- navigationHistory: properties
\* the step pops the last entry of the history and runs it once
PopsAndRuns ==
  /\ navigationHistory # <<>>
  /\ navigationHistory' = SubSeq(navigationHistory, 1, Len(navigationHistory) - 1)
  /\ ran' = Append(ran, navigationHistory[Len(navigationHistory)])
  /\ LET last == navigationHistory[Len(navigationHistory)]
     IN IF last.run = "openFileHistory"
        THEN last.arg \in historyPanels'
        ELSE last.arg \in filesPanels'

\* the step pushes one entry while the user goes from a history to the files of
\* a commit or from the files of a commit to a history
PushesOnNavigation ==
  /\ \E e \in {Closure("openFileHistory", f) : f \in Files} \cup {Closure("openCommitFiles", c) : c \in Commits} :
       navigationHistory' = Append(navigationHistory, e)
  /\ ran' = ran
  /\ HistoryShowCommitFiles \/ FilesOpenFileHistory

\* C24: the navigation history is a stack: it changes only by the push of a
\* navigation between a history and the files of a commit or by back popping
\* and running once the entry pushed last; back on the empty history changes
\* nothing and ends in no error
C24_Stack ==
  /\ [][navigationHistory' # navigationHistory => PushesOnNavigation \/ PopsAndRuns]_vars
  /\ [][ran' # ran => PopsAndRuns]_vars
  /\ [][navigationHistory = <<>> /\ BackCommand => UNCHANGED vars]_vars
  /\ [](~navError)

\* back has run the entry pushed last, the one of a commit's files, and left
\* the entry pushed before it on the stack
C24_Witness ==
  /\ Len(ran) = 1
  /\ ran[1].run = "openCommitFiles"
  /\ Len(navigationHistory) = 1
  /\ navigationHistory[1].run = "openFileHistory"
  /\ ran[1].arg \in filesPanels

\* ---------------------------------------------------------------- GitCommitFilesPanel.currentPanels: properties
\* the commit-files panels that are open
OpenCommitPanels == { p \in 1..Len(commitPanels) : ~commitPanels[p].disposed }

\* C27: the registry holds exactly one entry per open commit-files panel,
\* under the key of the panel; createOrShow for a registered key makes no
\* panel; createOrShow for a key that is not registered (never used, or
\* removed when its panel was disposed) makes a new panel under that key
C27_Registry ==
  /\ [](/\ \A p \in OpenCommitPanels :
            /\ Has(currentPanels, commitPanels[p].key)
            /\ currentPanels[commitPanels[p].key] = p
        /\ \A k \in DOMAIN currentPanels :
            /\ currentPanels[k] \in OpenCommitPanels
            /\ commitPanels[currentPanels[k]].key = k)
  /\ [][\A key \in Keys :
          FilesCreateOrShowOn(key) =>
            IF key \in DOMAIN currentPanels
            THEN UNCHANGED <<currentPanels, commitPanels>>
            ELSE /\ Len(commitPanels') = Len(commitPanels) + 1
                 /\ commitPanels'[Len(commitPanels')] = [key |-> key, disposed |-> FALSE]
                 /\ \A p \in 1..Len(commitPanels) : commitPanels'[p] = commitPanels[p]]_vars

\* a panel was disposed and a new panel is registered under the same key,
\* beside the open panel of another key
C27_Witness ==
  /\ Len(commitPanels) = 3
  /\ commitPanels[1].disposed
  /\ commitPanels[3].key = commitPanels[1].key
  /\ commitPanels[2].key # commitPanels[1].key
  /\ OpenCommitPanels = {2, 3}
  /\ currentPanels[commitPanels[1].key] = 3

\* ---------------------------------------------------------------- GitFileHistoryPanel: properties
\* C28: whenever GitFileHistoryPanel.currentPanel is defined, it is a panel
\* that has not been disposed (so that createOrShow after the user closed the
\* panel takes the branch that makes a new one)
C28_CurrentPanelLive == currentPanel # 0 => currentPanel \notin disposedViews

\* no call of update on view v waits for git
Settled(v) == \A k \in 1..Len(updating) : updating[k].view # v

\* C29: once the calls of update on an open panel have finished, the last
\* one to finish having set the html, the html shows the commit list of
\* this.fileUri, the file of the last call of createOrShow
C29_LastFileShown ==
  \A v \in 1..Len(views) :
    /\ views[v].kind = "class"
    /\ v \notin disposedViews
    /\ Settled(v)
    /\ views[v].listing = "ok"
    => /\ views[v].html
       /\ views[v].commitList = CommitList(views[v].file)

\* ---------------------------------------------------------------- getFullFileDiffHtml: properties
\* split('\n') of an html string
RECURSIVE SplitMarkup(_)
SplitMarkup(h) ==
  IF h = <<>> THEN << <<>> >>
  ELSE IF Head(h) = Ch(NL) THEN << <<>> >> \o SplitMarkup(Tail(h))
  ELSE LET r == SplitMarkup(Tail(h)) IN << <<Head(h)>> \o r[1] >> \o Tail(r)

\* the call returned the html of a commit whose diff against the parent
\* could not be obtained
FirstCommitReturned == hpc = "returned" /\ firstCommit

\* C30: when the diff against the parent cannot be obtained, every line of
\* the content is marked as an addition in the returned html, whatever its text
C30_AllAdded ==
  FirstCommitReturned =>
    /\ Len(SplitMarkup(diffHtml)) = Len(Split(baseContent))
    /\ \A k \in 1..Len(Split(baseContent)) :
         SplitMarkup(diffHtml)[k] = SpanOf(AddClass, Split(baseContent)[k])

====
